---------------------------- MODULE Spec2Model ----------------------------
(***************************************************************************)
(* A model of the IMGAPI client: the filter-to-query-string encoder        *)
(* (imgapi/src/lib.rs), the blocking catalog operations list and get       *)
(* (imgapi/src/blocking.rs) and the command-line entry point               *)
(* (src/bin/img.rs).                                                       *)
(*                                                                         *)
(* Strings are sequences of one-character strings, so that parsing,        *)
(* formatting and percent-encoding are computed character by character.    *)
(***************************************************************************)
EXTENDS Integers, Sequences, FiniteSets, TLC

VARIABLES
    pc,           \* position of the running operation
    caller,       \* who called list: "lib" (a user of the crate) or "process"
    image_uuid,   \* get: the argument
    filter,       \* list: Option<&ImageFilter>; process: Some of its local `filter`
    filter2,      \* a second ImageFilter with the same field values as `filter`
    encoded,      \* the Strings returned by to_string for filter and filter2
    args,         \* process: env::args()
    idx,          \* process: position of the for loop in args
    url,          \* the local Url of list / get
    requests,     \* the GETs handed to the transport, in order
    response,     \* what the transport delivered for the GET
    result,       \* the value returned by get / list / process
    stdout,       \* the lines printed with println!
    stderr,       \* the lines printed with eprintln! or by a panic
    exit_status   \* the status the program terminated with

vars == <<pc, caller, image_uuid, filter, filter2, encoded, args, idx, url,
          requests, response, result, stdout, stderr, exit_status>>

getVars == <<image_uuid>>
encVars == <<filter2, encoded>>
cliVars == <<caller, args, idx, stderr, exit_status>>

----------------------------------------------------------------------------
(* Option and Result *)

None == [some |-> FALSE]
Some(v) == [some |-> TRUE, v |-> v]
Ok(v) == [ok |-> TRUE, v |-> v]
Err(e) == [ok |-> FALSE, e |-> e]

\* An error value: its message and, for a formatted message, the argument.
Error(msg) == [msg |-> msg, arg |-> <<>>]
ErrorFmt(msg, arg) == [msg |-> msg, arg |-> arg]

----------------------------------------------------------------------------
(* Characters and strings *)

Digits == <<"0", "1", "2", "3", "4", "5", "6", "7", "8", "9">>
LowerCase == <<"a", "b", "c", "d", "e", "f", "g", "h", "i", "j", "k", "l", "m",
               "n", "o", "p", "q", "r", "s", "t", "u", "v", "w", "x", "y", "z">>
UpperCase == <<"A", "B", "C", "D", "E", "F", "G", "H", "I", "J", "K", "L", "M",
               "N", "O", "P", "Q", "R", "S", "T", "U", "V", "W", "X", "Y", "Z">>
HexUpper == <<"0", "1", "2", "3", "4", "5", "6", "7", "8", "9",
              "A", "B", "C", "D", "E", "F">>

Range(s) == {s[i] : i \in DOMAIN s}
DigitChars == Range(Digits)
AlphaChars == Range(LowerCase) \cup Range(UpperCase)
UpperChars == Range(UpperCase)
HexChars == Range(HexUpper) \cup {"a", "b", "c", "d", "e", "f"}
IsDigit(c) == c \in DigitChars
IsAlpha(c) == c \in AlphaChars
IsAlnum(c) == IsDigit(c) \/ IsAlpha(c)
IsHex(c) == c \in HexChars

ToLowerChar(c) ==
    IF c \in UpperChars
    THEN LowerCase[CHOOSE i \in DOMAIN UpperCase : UpperCase[i] = c]
    ELSE c
ToLower(s) == [i \in DOMAIN s |-> ToLowerChar(s[i])]

Rep(c, n) == [i \in 1..n |-> c]
Front(s) == SubSeq(s, 1, Len(s) - 1)

\* Position of the first c in s, 0 when there is none.
IndexOf(s, c) ==
    LET at == {i \in DOMAIN s : s[i] = c}
    IN  IF at = {} THEN 0 ELSE CHOOSE i \in at : \A j \in at : i <= j

StartsWith(s, p) == Len(s) >= Len(p) /\ SubSeq(s, 1, Len(p)) = p

\* The pieces of s between occurrences of c (str::split).
RECURSIVE Split(_, _)
Split(s, c) ==
    LET i == IndexOf(s, c)
    IN  IF i = 0 THEN <<s>>
        ELSE <<SubSeq(s, 1, i - 1)>> \o Split(SubSeq(s, i + 1, Len(s)), c)

\* The pieces of ss joined with sep between them.
RECURSIVE Join(_, _)
Join(ss, sep) ==
    IF ss = <<>> THEN <<>>
    ELSE IF Len(ss) = 1 THEN ss[1]
    ELSE ss[1] \o sep \o Join(Tail(ss), sep)

JOYENT_IMGAPI_URL == <<"h", "t", "t", "p", "s", ":", "/", "/", "i", "m", "a", "g", "e", "s", ".", "j", "o", "y", "e", "n", "t", ".", "c", "o", "m", "/", "i", "m", "a", "g", "e", "s">>

S_urn_uuid == <<"u", "r", "n", ":", "u", "u", "i", "d", ":">>
S_true == <<"t", "r", "u", "e">>
S_false == <<"f", "a", "l", "s", "e">>

----------------------------------------------------------------------------
(* Uuid: a value is its 32 hexadecimal digits in lower case *)

HyphenAt == {9, 14, 19, 24}

\* A parse_str that validates nothing.
UuidParseAcceptAll(s) == Ok(ToLower(SelectSeq(s, LAMBDA c : c # "-")))

\* Uuid::parse_str: the simple (32 digits), hyphenated (8-4-4-4-12), braced
\* and urn:uuid: forms, hexadecimal digits in either case.
UuidParse(s) ==
    LET body == IF Len(s) = 45 /\ StartsWith(s, S_urn_uuid) THEN SubSeq(s, 10, 45)
                ELSE IF Len(s) = 38 /\ s[1] = "{" /\ s[38] = "}" THEN SubSeq(s, 2, 37)
                ELSE s
    IN  IF Len(s) = 32 /\ \A i \in 1..32 : IsHex(s[i])
        THEN Ok(ToLower(s))
        ELSE IF /\ Len(s) \in {36, 38, 45}
                /\ Len(body) = 36
                /\ \A i \in 1..36 : IF i \in HyphenAt THEN body[i] = "-"
                                    ELSE IsHex(body[i])
        THEN Ok(ToLower(SelectSeq(body, LAMBDA c : c # "-")))
        ELSE Err(Error("InvalidUuid"))

\* Display for Uuid: lower-case hyphenated.
UuidToString(u) ==
    SubSeq(u, 1, 8) \o <<"-">> \o SubSeq(u, 9, 12) \o <<"-">> \o SubSeq(u, 13, 16)
        \o <<"-">> \o SubSeq(u, 17, 20) \o <<"-">> \o SubSeq(u, 21, 32)

----------------------------------------------------------------------------
(* Url: [scheme, host, path, query]; path is the sequence of path segments, *)
(* or the one opaque path of a URL that cannot be a base                    *)

IsSchemeChar(c) == IsAlnum(c) \/ c \in {"+", "-", "."}

\* The input starts with "<scheme>:".
HasScheme(s) ==
    LET i == IndexOf(s, ":")
    IN  /\ i > 1
        /\ IsAlpha(s[1])
        /\ \A j \in 1..(i - 1) : IsSchemeChar(s[j])

\* A Url::parse that takes an empty query for no query.
UrlParseDropsEmptyQuery(s) ==
    LET i == IndexOf(s, ":")
        rest == SubSeq(s, i + 3, Len(s))            \* after "://"
        q == IndexOf(rest, "?")
        hier == IF q = 0 THEN rest ELSE SubSeq(rest, 1, q - 1)
        sl == IndexOf(hier, "/")
        host == IF sl = 0 THEN hier ELSE SubSeq(hier, 1, sl - 1)
        path == IF sl = 0 THEN <<>> ELSE SubSeq(hier, sl + 1, Len(hier))
    IN  IF ~HasScheme(s) THEN Err(Error("RelativeUrlWithoutBase"))
        ELSE IF SubSeq(s, i + 1, i + 2) # <<"/", "/">> \/ host = <<>>
        THEN Err(Error("EmptyHost"))
        ELSE Ok([scheme |-> SubSeq(s, 1, i - 1),
                 host |-> Some(host),
                 path |-> Split(path, "/"),
                 query |-> IF q = 0 \/ q = Len(rest) THEN None
                           ELSE Some(SubSeq(rest, q + 1, Len(rest)))])

\* Url::parse of "<scheme>://<host>/<path>[?<query>]".
UrlParse(s) ==
    LET i == IndexOf(s, ":")
        rest == SubSeq(s, i + 3, Len(s))            \* after "://"
        q == IndexOf(rest, "?")
        hier == IF q = 0 THEN rest ELSE SubSeq(rest, 1, q - 1)
        sl == IndexOf(hier, "/")
        host == IF sl = 0 THEN hier ELSE SubSeq(hier, 1, sl - 1)
        path == IF sl = 0 THEN <<>> ELSE SubSeq(hier, sl + 1, Len(hier))
    IN  IF ~HasScheme(s) THEN Err(Error("RelativeUrlWithoutBase"))
        ELSE IF SubSeq(s, i + 1, i + 2) # <<"/", "/">> \/ host = <<>>
        THEN Err(Error("EmptyHost"))
        ELSE Ok([scheme |-> SubSeq(s, 1, i - 1),
                 host |-> Some(host),
                 path |-> Split(path, "/"),
                 query |-> IF q = 0 THEN None
                           ELSE Some(SubSeq(rest, q + 1, Len(rest)))])

\* Percent-encoding of a path segment: of the characters an id can hold,
\* only the braces are escaped.
PathEncodeChar(c) ==
    CASE c = "{" -> <<"%", "7", "B">>
      [] c = "}" -> <<"%", "7", "D">>
      [] OTHER -> <<c>>

RECURSIVE PathEncode(_)
PathEncode(s) ==
    IF s = <<>> THEN <<>> ELSE PathEncodeChar(Head(s)) \o PathEncode(Tail(s))

\* Url::join: an input with a scheme is an absolute URL of its own; any other
\* input (here: one without "/", "?" or "#") replaces the last path segment
\* of the base, whose path does not end in "/".
UrlJoin(base, input) ==
    IF HasScheme(input)
    THEN LET i == IndexOf(input, ":")
         IN  Ok([scheme |-> SubSeq(input, 1, i - 1),
                 host |-> None,
                 path |-> <<SubSeq(input, i + 1, Len(input))>>,
                 query |-> None])
    ELSE Ok([base EXCEPT !.path = Front(base.path) \o <<PathEncode(input)>>,
                         !.query = None])

\* Display for Url.
UrlToString(u) ==
    IF u.host.some
    THEN u.scheme \o <<":", "/", "/">> \o u.host.v \o <<"/">> \o Join(u.path, <<"/">>)
            \o (IF u.query.some THEN <<"?">> \o u.query.v ELSE <<>>)
    ELSE u.scheme \o <<":">> \o u.path[1]


----------------------------------------------------------------------------
(* JSON values as serde_json hands them to the derived Deserialize impls *)

JBool(b) == [t |-> "bool", b |-> b]
JNum(n) == [t |-> "num", n |-> n]
JStr(s) == [t |-> "str", s |-> s]
JArr(a) == [t |-> "array", a |-> a]
JObj(o) == [t |-> "object", o |-> o]

IsStr(j) == j.t = "str"
IsBool(j) == j.t = "bool"
IsUnsigned(j) == j.t = "num" /\ j.n >= 0
IsUuidStr(j) == j.t = "str" /\ UuidParse(j.s).ok
IsUrlStr(j) == j.t = "str" /\ UrlParse(j.s).ok
IsStrArr(j) == j.t = "array" /\ \A i \in DOMAIN j.a : IsStr(j.a[i])
IsUuidArr(j) == j.t = "array" /\ \A i \in DOMAIN j.a : IsUuidStr(j.a[i])
IsObject(j) == j.t = "object"

\* A field of type T has to be there (and be a T).
Has(o, f) == f \in DOMAIN o
\* A field of type Option<T> may be missing or null (or else be a T).
Missing(o, f) == f \notin DOMAIN o \/ o[f].t = "null"
\* The decoded Option<T> of a field, T carried as it is in the JSON value.
OptionOf(o, f) == IF f \notin DOMAIN o \/ o[f].t = "null" THEN None ELSE Some(o[f])

S_active == <<"a", "c", "t", "i", "v", "e">>
S_unactivated == <<"u", "n", "a", "c", "t", "i", "v", "a", "t", "e", "d">>
S_disabled == <<"d", "i", "s", "a", "b", "l", "e", "d">>
S_creating == <<"c", "r", "e", "a", "t", "i", "n", "g">>
S_failed == <<"f", "a", "i", "l", "e", "d">>

\* enum ImageState and its lower-case textual form (Display, serde).
ImageState == {"Active", "Unactivated", "Disabled", "Creating", "Failed"}
ImageStateToString(st) ==
    CASE st = "Active" -> S_active
      [] st = "Unactivated" -> S_unactivated
      [] st = "Disabled" -> S_disabled
      [] st = "Creating" -> S_creating
      [] st = "Failed" -> S_failed
IsImageState(j) == j.t = "str" /\ \E st \in ImageState : ImageStateToString(st) = j.s
ImageStateOf(s) == CHOOSE st \in ImageState : ImageStateToString(st) = s

S_bzip2 == <<"b", "z", "i", "p", "2">>
S_gzip == <<"g", "z", "i", "p">>
S_none == <<"n", "o", "n", "e">>
IsCompression(j) == j.t = "str" /\ j.s \in {S_bzip2, S_gzip, S_none}

\* struct ImageError.
IsImageError(j) ==
    /\ j.t = "object"
    /\ Has(j.o, "message") /\ IsStr(j.o.message)
    /\ (Missing(j.o, "code") \/ IsStr(j.o.code))
    /\ (Missing(j.o, "stack") \/ IsStr(j.o.stack))

\* struct File; `stor` is skipped, whatever the input holds.
IsFile(j) ==
    /\ j.t = "object"
    /\ Has(j.o, "sha1") /\ IsStr(j.o.sha1)
    /\ Has(j.o, "size") /\ IsUnsigned(j.o.size)
    /\ Has(j.o, "compression") /\ IsCompression(j.o.compression)
    /\ (Missing(j.o, "dataset_guid") \/ IsUuidStr(j.o.dataset_guid))
    /\ (Missing(j.o, "digest") \/ IsStr(j.o.digest))
    /\ (Missing(j.o, "uncompressedDigest") \/ IsStr(j.o.uncompressedDigest))
IsFileArr(j) == j.t = "array" /\ \A i \in DOMAIN j.a : IsFile(j.a[i])

\* struct User.
IsUser(j) == j.t = "object" /\ Has(j.o, "name") /\ IsStr(j.o.name)
IsUserArr(j) == j.t = "array" /\ \A i \in DOMAIN j.a : IsUser(j.a[i])

\* The JSON value satisfies the schema of struct Image (published_at, a
\* DateTime<Utc>, is taken to be well-formed whenever it is a string).
IsImage(j) ==
    /\ j.t = "object"
    /\ Has(j.o, "v") /\ IsUnsigned(j.o.v)
    /\ Has(j.o, "uuid") /\ IsUuidStr(j.o.uuid)
    /\ Has(j.o, "owner") /\ IsUuidStr(j.o.owner)
    /\ Has(j.o, "name") /\ IsStr(j.o.name)
    /\ Has(j.o, "version") /\ IsStr(j.o.version)
    /\ (Missing(j.o, "description") \/ IsStr(j.o.description))
    /\ (Missing(j.o, "homepage") \/ IsUrlStr(j.o.homepage))
    /\ (Missing(j.o, "eula") \/ IsUrlStr(j.o.eula))
    /\ (Missing(j.o, "icon") \/ IsBool(j.o.icon))
    /\ Has(j.o, "state") /\ IsImageState(j.o.state)
    /\ (Missing(j.o, "error") \/ IsImageError(j.o.error))
    /\ Has(j.o, "disabled") /\ IsBool(j.o.disabled)
    /\ Has(j.o, "public") /\ IsBool(j.o.public)
    /\ (Missing(j.o, "published_at") \/ IsStr(j.o.published_at))
    /\ Has(j.o, "type") /\ IsStr(j.o.type)
    /\ Has(j.o, "os") /\ IsStr(j.o.os)
    /\ (Missing(j.o, "origin") \/ IsUuidStr(j.o.origin))
    /\ Has(j.o, "files") /\ IsFileArr(j.o.files)
    /\ (Missing(j.o, "acl") \/ IsUuidArr(j.o.acl))
    /\ (Missing(j.o, "users") \/ IsUserArr(j.o.users))
    /\ (Missing(j.o, "billing_tags") \/ IsStrArr(j.o.billing_tags))
    /\ TRUE  \* traits: Option<Value> takes any value
    /\ (Missing(j.o, "tags") \/ IsObject(j.o.tags))
    /\ (Missing(j.o, "generate_passwords") \/ IsBool(j.o.generate_passwords))
    /\ (Missing(j.o, "inherited_directories") \/ IsStrArr(j.o.inherited_directories))
    /\ (Missing(j.o, "nic_driver") \/ IsStr(j.o.nic_driver))
    /\ (Missing(j.o, "disk_driver") \/ IsStr(j.o.disk_driver))
    /\ (Missing(j.o, "cpu_type") \/ IsStr(j.o.cpu_type))
    /\ (Missing(j.o, "image_size") \/ IsUnsigned(j.o.image_size))
    /\ (Missing(j.o, "channels") \/ IsStrArr(j.o.channels))

\* Deserialize for Image: the typed fields the model follows; the other
\* optional fields are checked by IsImage and carried as they came.
DecodeImage(j) ==
    IF ~IsImage(j) THEN Err(Error("Decode"))
    ELSE Ok([v |-> j.o.v.n,
             uuid |-> UuidParse(j.o.uuid.s).v,
             owner |-> UuidParse(j.o.owner.s).v,
             name |-> j.o.name.s,
             version |-> j.o.version.s,
             state |-> ImageStateOf(j.o.state.s),
             error |-> OptionOf(j.o, "error"),
             disabled |-> j.o.disabled.b,
             public |-> j.o.public.b,
             image_type |-> j.o.type.s,
             os |-> j.o.os.s,
             files |-> j.o.files.a])


----------------------------------------------------------------------------
(* Inputs: identifiers and response bodies *)

HexSample == {"0", "7", "a", "F"}
BadChar == {"g", "-", "/", " "}

Hyphenated(c, d) ==
    Rep(c, 8) \o <<"-">> \o Rep(d, 4) \o <<"-">> \o Rep(c, 4) \o <<"-">>
        \o Rep(d, 4) \o <<"-">> \o Rep(c, 12)
Simple(c, d) == Rep(c, 16) \o Rep(d, 16)
Braced(s) == <<"{">> \o s \o <<"}">>
Urn(s) == S_urn_uuid \o s

HyphenatedIds == {Hyphenated(c, d) : c, d \in HexSample}
SimpleIds == {Simple(c, d) : c, d \in HexSample}

\* Strings that are nearly identifiers: one character replaced, one dropped,
\* one added, a wrong prefix or a missing brace.
NearIds ==
    {[Hyphenated("a", "0") EXCEPT ![i] = x] : i \in {1, 9, 14, 36}, x \in BadChar}
        \cup {[Simple("a", "0") EXCEPT ![i] = x] : i \in {1, 32}, x \in BadChar}
        \cup {Front(s) : s \in HyphenatedIds \cup SimpleIds}
        \cup {s \o <<"0">> : s \in {Hyphenated("a", "0"), Simple("a", "0")}}
        \cup {Urn(Simple("a", "0")), Braced(Simple("a", "0")),
              <<"{">> \o Hyphenated("a", "0") \o <<"0">>,
              <<"U", "R", "N", ":", "u", "u", "i", "d", ":">> \o Hyphenated("a", "0")}

S_not_a_uuid == <<"n", "o", "t", "-", "a", "-", "u", "u", "i", "d">>

IdInputs ==
    HyphenatedIds \cup SimpleIds
        \cup {Braced(s) : s \in HyphenatedIds} \cup {Urn(s) : s \in HyphenatedIds}
        \cup NearIds \cup {<<>>, S_not_a_uuid}

\* A well-formed image object with the given id and state.
ImageJson(id, st) ==
    [v |-> JNum(2),
     uuid |-> JStr(id),
     owner |-> JStr(Simple("0", "7")),
     name |-> JStr(<<"n">>),
     version |-> JStr(<<"1">>),
     state |-> JStr(st),
     disabled |-> JBool(FALSE),
     public |-> JBool(TRUE),
     type |-> JStr(<<"z">>),
     os |-> JStr(<<"o">>),
     files |-> JArr(<<JObj([sha1 |-> JStr(<<"c">>), size |-> JNum(1),
                           compression |-> JStr(S_gzip)])>>)]

GoodImage == JObj(ImageJson(Hyphenated("a", "0"), S_active))
FailedImage ==
    JObj([f \in DOMAIN ImageJson(<<>>, <<>>) \cup {"error"} |->
            IF f = "error" THEN JObj([message |-> JStr(<<"m">>)])
            ELSE ImageJson(Hyphenated("F", "7"), S_failed)[f]])
\* Not an Image: `files` is missing.
NoFilesImage ==
    JObj([f \in DOMAIN ImageJson(<<>>, <<>>) \ {"files"} |->
            ImageJson(Hyphenated("a", "0"), S_active)[f]])
\* Not an Image: the state is none of the five.
BadStateImage == JObj(ImageJson(Hyphenated("a", "0"), <<"o", "k">>))

Elements == {GoodImage, NoFilesImage}

----------------------------------------------------------------------------
(* ImageFilter and its ToString *)

K_account == <<"a", "c", "c", "o", "u", "n", "t">>
K_channel == <<"c", "h", "a", "n", "n", "e", "l">>
K_include_admin_fields == <<"i", "n", "c", "l", "u", "d", "e", "_", "a", "d", "m", "i", "n", "_", "f", "i", "e", "l", "d", "s">>
K_inclAdminFields == <<"i", "n", "c", "l", "A", "d", "m", "i", "n", "F", "i", "e", "l", "d", "s">>
K_owner == <<"o", "w", "n", "e", "r">>
K_state == <<"s", "t", "a", "t", "e">>
K_name == <<"n", "a", "m", "e">>
K_version == <<"v", "e", "r", "s", "i", "o", "n">>
K_public == <<"p", "u", "b", "l", "i", "c">>
K_os == <<"o", "s">>
K_image_type == <<"i", "m", "a", "g", "e", "_", "t", "y", "p", "e">>
K_type == <<"t", "y", "p", "e">>
K_limit == <<"l", "i", "m", "i", "t">>
K_tag == <<"t", "a", "g">>
K_tag_dot == <<"t", "a", "g", ".">>
K_billing_tag == <<"b", "i", "l", "l", "i", "n", "g", "_", "t", "a", "g">>
K_marker == <<"m", "a", "r", "k", "e", "r">>

S_smartos == <<"s", "m", "a", "r", "t", "o", "s">>
S_windows == <<"w", "i", "n", "d", "o", "w", "s">>
S_linux == <<"l", "i", "n", "u", "x">>
S_bsd == <<"b", "s", "d">>
S_illumos == <<"i", "l", "l", "u", "m", "o", "s">>
S_other == <<"o", "t", "h", "e", "r">>

\* enum OperatingSystem.
OperatingSystem == {"SmartOS", "Windows", "Linux", "BSD", "Illumos", "Other"}

\* OperatingSystem::as_param
as_param(os) ==
    CASE os = "SmartOS" -> S_smartos
      [] os = "Windows" -> S_windows
      [] os = "Linux" -> S_linux
      [] os = "BSD" -> S_bsd
      [] os = "Illumos" -> S_illumos
      [] os = "Other" -> S_other

\* Display for OperatingSystem
OperatingSystemToString(os) ==
    CASE os = "SmartOS" -> <<"S", "m", "a", "r", "t", "O", "S">>
      [] os = "Windows" -> <<"W", "i", "n", "d", "o", "w", "s">>
      [] os = "Linux" -> <<"L", "i", "n", "u", "x">>
      [] os = "BSD" -> <<"B", "S", "D">>
      [] os = "Illumos" -> S_illumos
      [] os = "Other" -> <<"O", "t", "h", "e", "r">>

\* FromStr for OperatingSystem: the lower-cased input against the six names.
OperatingSystemFromStr(s) ==
    IF \E os \in OperatingSystem : as_param(os) = ToLower(s)
    THEN Ok(CHOOSE os \in OperatingSystem : as_param(os) = ToLower(s))
    ELSE Err(Error("ParseOsError"))

\* to_string of a bool and a u32.
BoolToString(b) == IF b THEN S_true ELSE S_false
RECURSIVE U32ToString(_)
U32ToString(n) ==
    IF n < 10 THEN <<Digits[n + 1]>>
    ELSE U32ToString(n \div 10) \o <<Digits[(n % 10) + 1]>>

\* The printable ASCII characters, from 0x20 on ("grave" holds the place of
\* the grave accent, 0x60).
Ascii ==
    <<" ", "!", "\"", "#", "$", "%", "&", "'", "(", ")", "*", "+", ",", "-", ".", "/">>
       \o <<"0", "1", "2", "3", "4", "5", "6", "7", "8", "9", ":", ";", "<", "=", ">", "?">>
       \o <<"@", "A", "B", "C", "D", "E", "F", "G", "H", "I", "J", "K", "L", "M", "N", "O">>
       \o <<"P", "Q", "R", "S", "T", "U", "V", "W", "X", "Y", "Z", "[", "\\", "]", "^", "_">>
       \o <<"grave", "a", "b", "c", "d", "e", "f", "g", "h", "i", "j", "k", "l", "m", "n", "o">>
       \o <<"p", "q", "r", "s", "t", "u", "v", "w", "x", "y", "z", "{", "|", "}", "~">>
CharCode(c) == 31 + IndexOf(Ascii, c)

\* form_urlencoded::byte_serialize: letters, digits and * - . _ stay, a
\* space becomes +, any other byte becomes %XX.
ByteSerializeChar(c) ==
    IF IsAlnum(c) \/ c \in {"*", "-", ".", "_"} THEN <<c>>
    ELSE IF c = " " THEN <<"+">>
    ELSE <<"%", HexUpper[(CharCode(c) \div 16) + 1], HexUpper[(CharCode(c) % 16) + 1]>>

RECURSIVE ByteSerialize(_)
ByteSerialize(s) ==
    IF s = <<>> THEN <<>> ELSE ByteSerializeChar(Head(s)) \o ByteSerialize(Tail(s))

\* form_urlencoded::Serializer::append_pair on the target string qp.
append_pair(qp, name, value) ==
    (IF qp = <<>> THEN <<>> ELSE qp \o <<"&">>)
        \o ByteSerialize(name) \o <<"=">> \o ByteSerialize(value)

\* stringify!($param)
Stringify(param) ==
    CASE param = "account" -> K_account
      [] param = "channel" -> K_channel
      [] param = "include_admin_fields" -> K_include_admin_fields
      [] param = "owner" -> K_owner
      [] param = "state" -> K_state
      [] param = "name" -> K_name
      [] param = "version" -> K_version
      [] param = "public" -> K_public
      [] param = "os" -> K_os
      [] param = "image_type" -> K_image_type
      [] param = "limit" -> K_limit

\* v.to_string() for the value v of the field `param`, by the field's type.
ToStringOf(param, v) ==
    CASE param \in {"account", "owner"} -> UuidToString(v)
      [] param \in {"include_admin_fields", "public"} -> BoolToString(v)
      [] param = "state" -> ImageStateToString(v)
      [] param = "os" -> OperatingSystemToString(v)
      [] param = "limit" -> U32ToString(v)
      [] param \in {"channel", "name", "version", "image_type"} -> v

\* v.$val_func()
CallMethod(val_func, param, v) ==
    CASE val_func = "to_string" -> ToStringOf(param, v)
      [] val_func = "as_param" -> as_param(v)

\* add_param!, fourth arm: ($param, $query_name, $val_func, $collection).
add_param4(self, param, query_name, val_func, qp) ==
    IF self[param].some
    THEN append_pair(qp, query_name, CallMethod(val_func, param, self[param].v))
    ELSE qp

\* add_param!, third arm: ($param, $query_name, $collection). The arm passes
\* stringify!($param) on, not $query_name.
add_param3(self, param, query_name, qp) ==
    add_param4(self, param, Stringify(param), "to_string", qp)

\* add_param!, first arm: ($param, $collection).
add_param2(self, param, qp) ==
    add_param3(self, param, Stringify(param), qp)

\* for (k, v) in val.iter() { qp.append_pair(&format!("tag.{}", k), v); }
\* over the entries in the map's iteration order.
RECURSIVE AppendTags(_, _)
AppendTags(entries, qp) ==
    IF entries = <<>> THEN qp
    ELSE AppendTags(Tail(entries),
                    append_pair(qp, K_tag_dot \o Head(entries)[1], Head(entries)[2]))

\* The billing-tag loop, last element first.
RECURSIVE AppendBillingTagsReversed(_, _)
AppendBillingTagsReversed(val, qp) ==
    IF val = <<>> THEN qp
    ELSE append_pair(AppendBillingTagsReversed(Tail(val), qp), K_billing_tag, Head(val))

\* for v in val.iter() { qp.append_pair("billing_tag", v); }
RECURSIVE AppendBillingTags(_, _)
AppendBillingTags(val, qp) ==
    IF val = <<>> THEN qp
    ELSE AppendBillingTags(Tail(val), append_pair(qp, K_billing_tag, Head(val)))

\* impl ToString for ImageFilter. A filter is a record of Options; the tag
\* map is the sequence of its <<key, value>> entries in iteration order.
to_string(self) ==
    LET q0 == <<>>
        q1 == add_param2(self, "account", q0)
        q2 == add_param2(self, "channel", q1)
        q3 == add_param3(self, "include_admin_fields", K_inclAdminFields, q2)
        q4 == add_param2(self, "owner", q3)
        q5 == add_param2(self, "state", q4)
        q6 == add_param2(self, "name", q5)
        q7 == add_param2(self, "version", q6)
        q8 == add_param2(self, "public", q7)
        q9 == add_param4(self, "os", K_os, "as_param", q8)
        q10 == add_param2(self, "image_type", q9)
        q11 == add_param2(self, "limit", q10)
        q12 == IF self.tag.some THEN AppendTags(self.tag.v, q11) ELSE q11
        q13 == IF self.billing_tag.some THEN AppendBillingTags(self.billing_tag.v, q12)
               ELSE q12
    IN  q13

\* ImageFilter::default()
DefaultFilter ==
    [account |-> None, channel |-> None, include_admin_fields |-> None,
     owner |-> None, state |-> None, name |-> None, version |-> None,
     public |-> None, os |-> None, image_type |-> None, tag |-> None,
     billing_tag |-> None, limit |-> None]

----------------------------------------------------------------------------
(* Inputs: filters *)

MaxSetScalars == 2
MaxBillingTags == 2

ScalarFields ==
    {"account", "channel", "include_admin_fields", "owner", "state", "name",
     "version", "public", "os", "image_type", "limit"}

\* Two sample values for every field, plain ones and ones with characters
\* that the query string has to escape.
SampleValue(field, variant) ==
    CASE field = "account" ->
            IF variant = 1 THEN UuidParse(Hyphenated("a", "0")).v
            ELSE UuidParse(Simple("F", "7")).v
      [] field = "channel" -> IF variant = 1 THEN <<"d", "e", "v">> ELSE <<"*">>
      [] field = "include_admin_fields" -> variant = 1
      [] field = "owner" ->
            IF variant = 1 THEN UuidParse(Simple("7", "a")).v
            ELSE UuidParse(Hyphenated("0", "F")).v
      [] field = "state" -> IF variant = 1 THEN "Active" ELSE "Failed"
      [] field = "name" -> IF variant = 1 THEN <<"b", "a", "s", "e">>
                           ELSE <<"~", "a", " ", "b">>
      [] field = "version" -> IF variant = 1 THEN <<"1", ".", "0">>
                              ELSE <<"1", "&", "2", "=", "3">>
      [] field = "public" -> variant = 2
      [] field = "os" -> IF variant = 1 THEN "Linux" ELSE "SmartOS"
      [] field = "image_type" -> IF variant = 1 THEN <<"z", "v", "o", "l">>
                                 ELSE <<"!", "z", "+", "%">>
      [] field = "limit" -> IF variant = 1 THEN 1000 ELSE 0

ScalarChoices ==
    {m \in SUBSET ScalarFields : Cardinality(m) <= MaxSetScalars} \cup {ScalarFields}

TagEntries ==
    {<<<<"c", "l", "o", "u", "d">>, <<"p", "r", "i", "v", "a", "t", "e">>>>,
     <<<<"a", " ", "b">>, <<"c", "&", "d">>>>}

\* The HashMaps over TagEntries, each in every iteration order it may have.
TagMaps ==
    {None, Some(<<>>)} \cup {Some(<<e>>) : e \in TagEntries}
        \cup {Some(<<p[1], p[2]>>) :
                p \in {q \in TagEntries \X TagEntries : q[1][1] # q[2][1]}}

BillingTagValues == {<<"a">>, <<"b", " ", "c">>}

RECURSIVE SeqsUpTo(_, _)
SeqsUpTo(S, n) ==
    IF n = 0 THEN {<<>>}
    ELSE SeqsUpTo(S, n - 1)
            \cup {Append(s, x) : s \in {t \in SeqsUpTo(S, n - 1) : Len(t) = n - 1}, x \in S}

BillingTagLists == {None} \cup {Some(s) : s \in SeqsUpTo(BillingTagValues, MaxBillingTags)}

MakeFilter(set, variant, tag, billing_tag) ==
    [f \in DOMAIN DefaultFilter |->
        IF f = "tag" THEN tag
        ELSE IF f = "billing_tag" THEN billing_tag
        ELSE IF f \in set THEN Some(SampleValue(f, variant))
        ELSE None]

Filters ==
    {MakeFilter(set, variant, tag, billing_tag) :
        set \in ScalarChoices, variant \in {1, 2}, tag \in TagMaps,
        billing_tag \in BillingTagLists}

\* HashMap equality: the same entries, whatever the iteration order.
SameMap(a, b) == a.some = b.some /\ (a.some => Range(a.v) = Range(b.v))

\* The maps equal to `tag`: the same entries in any iteration order.
Rehashed(tag) == {t \in TagMaps : SameMap(t, tag)}

----------------------------------------------------------------------------
(* The values of the variables an operation does not use *)

IdleGet == image_uuid = <<>>
IdleFilter == filter = None /\ filter2 = None /\ encoded = <<None, None>>
IdleCli == args = <<>> /\ idx = 0 /\ stderr = <<>> /\ exit_status = None
IdleCall ==
    url = None /\ requests = <<>> /\ response = None /\ result = None /\ stdout = <<>>

----------------------------------------------------------------------------
(* Encoding a filter *)

InitEnc ==
    /\ pc = "encode"
    /\ \E f \in Filters :
        /\ filter = Some(f)
        /\ \E t \in Rehashed(f.tag) : filter2 = Some([f EXCEPT !.tag = t])
    /\ encoded = <<None, None>>
    /\ IdleGet /\ IdleCli /\ IdleCall
    /\ caller = "lib"

\* A caller's filter.to_string() (i = 1) or filter2.to_string() (i = 2).
ToStringCall(i) ==
    /\ pc = "encode"
    /\ encoded[i] = None
    /\ encoded' = [encoded EXCEPT
                     ![i] = Some(to_string(IF i = 1 THEN filter.v ELSE filter2.v))]
    /\ UNCHANGED <<pc, getVars, filter, filter2, cliVars, url, requests, response,
                   result, stdout>>

NextEnc == \E i \in {1, 2} : ToStringCall(i)

SpecEnc == InitEnc /\ [][NextEnc]_vars

----------------------------------------------------------------------------
(* blocking::get *)

InitGet ==
    /\ pc = "get"
    /\ caller = "lib"
    /\ image_uuid \in IdInputs
    /\ IdleFilter /\ IdleCli /\ IdleCall

\* let _ = Uuid::parse_str(image_uuid)?;
GetParseUuid ==
    /\ pc = "get"
    /\ IF UuidParse(image_uuid).ok
       THEN pc' = "get_url" /\ UNCHANGED result
       ELSE pc' = "returned" /\ result' = Some(Err(Error("InvalidUuid")))
    /\ UNCHANGED <<getVars, filter, encVars, cliVars, url, requests, response, stdout>>

\* let base_url = Url::parse(JOYENT_IMGAPI_URL)?;
\* let img_url = base_url.join(image_uuid)?;
GetBuildUrl ==
    /\ pc = "get_url"
    /\ LET base_url == UrlParse(JOYENT_IMGAPI_URL)
           img_url == UrlJoin(base_url.v, image_uuid)
       IN  IF ~base_url.ok
           THEN pc' = "returned" /\ result' = Some(base_url) /\ UNCHANGED url
           ELSE IF ~img_url.ok
           THEN pc' = "returned" /\ result' = Some(img_url) /\ UNCHANGED url
           ELSE pc' = "get_send" /\ url' = Some(img_url.v) /\ UNCHANGED result
    /\ UNCHANGED <<getVars, filter, encVars, cliVars, requests, response, stdout>>

\* reqwest::blocking::get(url): a URL without a host is refused before
\* anything is sent; any other is handed to the transport as one GET.
Transmit(u) ==
    IF u.host.some
    THEN /\ requests' = Append(requests, [method |-> "GET", url |-> UrlToString(u)])
         /\ UNCHANGED result
    ELSE /\ result' = Some(Err(Error("Builder")))
         /\ UNCHANGED requests

\* reqwest::blocking::get(img_url)
GetRequest ==
    /\ pc = "get_send"
    /\ Transmit(url.v)
    /\ pc' = IF url.v.host.some THEN "get_recv" ELSE "returned"
    /\ UNCHANGED <<getVars, filter, encVars, cliVars, url, response, stdout>>

\* What the transport may deliver for a GET: a failure, or a body.
Delivered(bodies) == {Err(Error("Transport"))} \cup {Ok(b) : b \in bodies}

\* ...?.json()?; Ok(img): the transport fails, or it delivers a body that
\* decodes as one Image or does not.
GetResponse ==
    /\ pc = "get_recv"
    /\ \E r \in Delivered(Elements \cup {FailedImage, BadStateImage, JArr(<<GoodImage>>)}) :
        /\ response' = Some(r)
        /\ result' = Some(IF r.ok THEN DecodeImage(r.v) ELSE r)
    /\ pc' = "returned"
    /\ UNCHANGED <<getVars, filter, encVars, cliVars, url, requests, stdout>>

NextGet == GetParseUuid \/ GetBuildUrl \/ GetRequest \/ GetResponse

SpecGet == InitGet /\ [][NextGet]_vars

----------------------------------------------------------------------------
(* blocking::list *)

MaxBody == 2

\* The response bodies: the arrays of up to MaxBody elements, and one body
\* that is no array.
Bodies == {JArr(a) : a \in SeqsUpTo(Elements, MaxBody)} \cup {GoodImage}

\* A decoding that leaves out the elements that are no Image.
RECURSIVE DecodeImagesLenient(_)
DecodeImagesLenient(j) ==
    IF j.t # "array" THEN Err(Error("Decode"))
    ELSE IF j.a = <<>> THEN Ok(<<>>)
    ELSE LET head == DecodeImage(Head(j.a))
             tail == DecodeImagesLenient(JArr(Tail(j.a)))
         IN  Ok((IF head.ok THEN <<head.v>> ELSE <<>>) \o tail.v)

\* Deserialize for Vec<Image>: the elements one after the other, the first
\* that is no Image ends the decoding with its error.
RECURSIVE DecodeImages(_)
DecodeImages(j) ==
    IF j.t # "array" THEN Err(Error("Decode"))
    ELSE IF j.a = <<>> THEN Ok(<<>>)
    ELSE LET head == DecodeImage(Head(j.a))
             tail == DecodeImages(JArr(Tail(j.a)))
         IN  IF ~head.ok THEN head
             ELSE IF ~tail.ok THEN tail
             ELSE Ok(<<head.v>> \o tail.v)

\* Where list returns to.
ListReturn == IF caller = "process" THEN "process_ret" ELSE "returned"

ListFilters ==
    {MakeFilter(set, 2, tag, billing_tag) :
        set \in {{}, {"os"}, {"name", "version"}, ScalarFields},
        tag \in {None, Some(<<CHOOSE e \in TagEntries : e[1] = <<"a", " ", "b">>>>)},
        billing_tag \in {None, Some(<<<<"b", " ", "c">>, <<"a">>>>)}}

InitList ==
    /\ pc = "list"
    /\ caller = "lib"
    /\ filter \in {None} \cup {Some(f) : f \in ListFilters}
    /\ filter2 = None /\ encoded = <<None, None>>
    /\ IdleGet /\ IdleCli /\ IdleCall

\* let url = match filter { Some(f) => Url::parse(&format!("{}?{}", ...))?,
\*                          None => Url::parse(JOYENT_IMGAPI_URL)? };
\* println!("url: {}", url);
ListBuildUrl ==
    /\ pc = "list"
    /\ LET parsed == IF filter.some
                     THEN UrlParse(JOYENT_IMGAPI_URL \o <<"?">> \o to_string(filter.v))
                     ELSE UrlParse(JOYENT_IMGAPI_URL)
       IN  IF parsed.ok
           THEN /\ url' = Some(parsed.v)
                /\ stdout' = Append(stdout, [fmt |-> "url: {}", arg |-> UrlToString(parsed.v)])
                /\ pc' = "list_send"
                /\ UNCHANGED result
           ELSE /\ result' = Some(parsed)
                /\ pc' = ListReturn
                /\ UNCHANGED <<url, stdout>>
    /\ UNCHANGED <<getVars, filter, encVars, cliVars, requests, response>>

\* reqwest::blocking::get(url)
ListRequest ==
    /\ pc = "list_send"
    /\ Transmit(url.v)
    /\ pc' = IF url.v.host.some THEN "list_recv" ELSE ListReturn
    /\ UNCHANGED <<getVars, filter, encVars, cliVars, url, response, stdout>>

\* let images: Vec<Image> = ...?.json()?; Ok(images)
ListResponse ==
    /\ pc = "list_recv"
    /\ \E r \in Delivered(Bodies) :
        /\ response' = Some(r)
        /\ result' = Some(IF r.ok THEN DecodeImages(r.v) ELSE r)
    /\ pc' = ListReturn
    /\ UNCHANGED <<getVars, filter, encVars, cliVars, url, requests, stdout>>

NextList == ListBuildUrl \/ ListRequest \/ ListResponse

SpecList == InitList /\ [][NextList]_vars

----------------------------------------------------------------------------
(* The command-line entry point: main and process *)

S_u32_max == <<"4", "2", "9", "4", "9", "6", "7", "2", "9", "5">>

\* str::split_once
split_once(s, c) ==
    LET i == IndexOf(s, c)
    IN  IF i = 0 THEN None
        ELSE Some(<<SubSeq(s, 1, i - 1), SubSeq(s, i + 1, Len(s))>>)

\* A bool::from_str that also takes the upper-case and numeric spellings.
BoolFromStrLenient(s) ==
    IF ToLower(s) \in {S_true, <<"1">>} THEN Ok(TRUE)
    ELSE IF ToLower(s) \in {S_false, <<"0">>} THEN Ok(FALSE)
    ELSE Err(Error("ParseBoolError"))

\* bool::from_str
BoolFromStr(s) ==
    IF s = S_true THEN Ok(TRUE)
    ELSE IF s = S_false THEN Ok(FALSE)
    ELSE Err(Error("ParseBoolError"))

RECURSIVE StripZeros(_)
StripZeros(s) == IF s # <<>> /\ Head(s) = "0" THEN StripZeros(Tail(s)) ELSE s

\* a > b for two decimal numerals without leading zeros.
NumeralGreater(a, b) ==
    \/ Len(a) > Len(b)
    \/ /\ Len(a) = Len(b)
       /\ \E i \in DOMAIN a :
            /\ SubSeq(a, 1, i - 1) = SubSeq(b, 1, i - 1)
            /\ IndexOf(Digits, a[i]) > IndexOf(Digits, b[i])

RECURSIVE DecimalValue(_)
DecimalValue(s) ==
    IF s = <<>> THEN 0
    ELSE 10 * DecimalValue(Front(s)) + (IndexOf(Digits, s[Len(s)]) - 1)

\* u32::from_str: an optional "+", then one or more decimal digits whose
\* value fits 32 bits.
U32FromStr(s) ==
    LET digits == IF s # <<>> /\ Head(s) = "+" THEN Tail(s) ELSE s
    IN  IF digits = <<>> \/ \E i \in DOMAIN digits : ~IsDigit(digits[i])
        THEN Err(Error("ParseIntError"))
        ELSE IF NumeralGreater(StripZeros(digits), S_u32_max)
        THEN Err(Error("ParseIntError"))
        ELSE Ok(DecimalValue(digits))

S_img == <<"i", "m", "g">>

T_account == <<"a", "c", "c", "o", "u", "n", "t", "=">> \o Hyphenated("a", "0")
T_owner == <<"o", "w", "n", "e", "r", "=">> \o Simple("F", "7")
T_owner2 == <<"o", "w", "n", "e", "r", "=">> \o Hyphenated("0", "7")
T_channel == <<"c", "h", "a", "n", "n", "e", "l", "=", "d", "e", "v">>
T_inclAdminFields == <<"i", "n", "c", "l", "A", "d", "m", "i", "n", "F", "i", "e", "l", "d", "s", "=", "t", "r", "u", "e">>
T_name == <<"n", "a", "m", "e", "=", "a", "=", "b">>
T_version == <<"v", "e", "r", "s", "i", "o", "n", "=", "1", ".", "0">>
T_public == <<"p", "u", "b", "l", "i", "c", "=", "f", "a", "l", "s", "e">>
T_os == <<"o", "s", "=", "L", "i", "n", "u", "x">>
T_type == <<"t", "y", "p", "e", "=", "z", "v", "o", "l">>
T_billing_tag_a == <<"b", "i", "l", "l", "i", "n", "g", "_", "t", "a", "g", "=", "a">>
T_billing_tag_bc == <<"b", "i", "l", "l", "i", "n", "g", "_", "t", "a", "g", "=", "b", " ", "c">>
T_limit == <<"l", "i", "m", "i", "t", "=", "+", "1", "0">>
T_verbose == <<"-", "-", "v", "e", "r", "b", "o", "s", "e">>
T_bad_account == <<"a", "c", "c", "o", "u", "n", "t", "=", "x", "y", "z">>
T_bad_owner == <<"o", "w", "n", "e", "r", "=">> \o Front(Simple("F", "7"))
T_bad_inclAdminFields == <<"i", "n", "c", "l", "A", "d", "m", "i", "n", "F", "i", "e", "l", "d", "s", "=", "1">>
T_bad_public == <<"p", "u", "b", "l", "i", "c", "=", "T", "R", "U", "E">>
T_bad_os == <<"o", "s", "=", "p", "l", "a", "n", "9">>
T_bad_limit_sign == <<"l", "i", "m", "i", "t", "=", "-", "1">>
T_bad_limit_big == <<"l", "i", "m", "i", "t", "=", "4", "2", "9", "4", "9", "6", "7", "2", "9", "6">>
T_bad_limit_empty == <<"l", "i", "m", "i", "t", "=">>
T_unknown == <<"s", "t", "a", "t", "e", "=", "a", "c", "t", "i", "v", "e">>
T_empty_key == <<"=", "x">>
T_tag == <<"t", "a", "g", "=", "c", "l", "o", "u", "d", "=", "p", "r", "i", "v", "a", "t", "e">>
T_marker == <<"m", "a", "r", "k", "e", "r", "=", "m">>

ValidTokens ==
    {T_account, T_owner, T_owner2, T_channel, T_inclAdminFields, T_name, T_version, T_public, T_os, T_type, T_billing_tag_a, T_billing_tag_bc, T_limit, T_verbose}
BadTokens ==
    {T_bad_account, T_bad_owner, T_bad_inclAdminFields, T_bad_public, T_bad_os, T_bad_limit_sign, T_bad_limit_big, T_bad_limit_empty, T_unknown, T_empty_key}
TodoTokens == {T_tag, T_marker}
Tokens == ValidTokens \cup BadTokens \cup TodoTokens

MaxArgs == 2

\* env::args(): the program's name, then up to MaxArgs arguments.
ArgLists == {<<S_img>> \o a : a \in SeqsUpTo(Tokens, MaxArgs)}

InitCli ==
    /\ pc = "process"
    /\ caller = "process"
    /\ args \in ArgLists
    /\ idx = 1
    /\ filter = Some(DefaultFilter)
    /\ filter2 = None /\ encoded = <<None, None>>
    /\ stderr = <<>> /\ exit_status = None
    /\ IdleGet /\ IdleCall

\* An assignment that keeps what an earlier token of the same key has stored.
SetKeepFirst(f, field, parsed, msg) ==
    IF ~parsed.ok THEN [kind |-> "err", e |-> Error(msg)]
    ELSE IF f[field].some THEN [kind |-> "set", filter |-> f]
    ELSE [kind |-> "set", filter |-> [f EXCEPT ![field] = Some(parsed.v)]]

Set(f, field, parsed, msg) ==
    IF parsed.ok THEN [kind |-> "set", filter |-> [f EXCEPT ![field] = Some(parsed.v)]]
    ELSE [kind |-> "err", e |-> Error(msg)]

\* match k { ... } on the filter f, for the argument arg = k "=" v: the
\* filter with one field set, the error returned, or the panic of todo!().
MatchKey(f, k, v, arg) ==
    CASE k = K_account ->
            Set(f, "account", UuidParse(v), "account must be a valid UUID")
      [] k = K_channel -> Set(f, "channel", Ok(v), "")
      [] k = K_inclAdminFields ->
            Set(f, "include_admin_fields", BoolFromStr(v),
                "inclAdminFields must be either true or false")
      [] k = K_owner -> Set(f, "owner", UuidParse(v), "owner must be a valid UUID")
      [] k = K_name -> Set(f, "name", Ok(v), "")
      [] k = K_version -> Set(f, "version", Ok(v), "")
      [] k = K_public ->
            Set(f, "public", BoolFromStr(v), "public must be either true or false")
      [] k = K_os ->
            Set(f, "os", OperatingSystemFromStr(v),
                "os must be one of: smartos, linux, windows, bsd, illumos, other")
      [] k = K_type -> Set(f, "image_type", Ok(v), "")
      [] k = K_tag -> [kind |-> "todo"]
      [] k = K_billing_tag ->
            Set(f, "billing_tag",
                Ok(IF f.billing_tag.some THEN Append(f.billing_tag.v, v) ELSE <<v>>), "")
      [] k = K_limit -> Set(f, "limit", U32FromStr(v), "limit must be an integer")
      [] k = K_marker -> [kind |-> "todo"]
      [] OTHER -> [kind |-> "err", e |-> ErrorFmt("unexpected query filter: {}", arg)]

\* One turn of `for arg in env::args()`.
ProcessArg ==
    /\ pc = "process"
    /\ idx <= Len(args)
    /\ LET arg == args[idx]
           kv == split_once(arg, "=")
           o == MatchKey(filter.v, kv.v[1], kv.v[2], arg)
       IN  IF ~kv.some
           THEN /\ idx' = idx + 1
                /\ UNCHANGED <<pc, filter, result, stderr, exit_status>>
           ELSE IF o.kind = "set"
           THEN /\ filter' = Some(o.filter)
                /\ idx' = idx + 1
                /\ UNCHANGED <<pc, result, stderr, exit_status>>
           ELSE IF o.kind = "err"
           THEN /\ result' = Some(Err(o.e))
                /\ pc' = "main"
                /\ UNCHANGED <<idx, filter, stderr, exit_status>>
           ELSE /\ stderr' = Append(stderr, [fmt |-> "panicked: {}",
                                             arg |-> Error("not yet implemented")])
                /\ exit_status' = Some(101)
                /\ pc' = "exited"
                /\ UNCHANGED <<idx, filter, result>>
    /\ UNCHANGED <<caller, args, getVars, encVars, url, requests, response, stdout>>

\* imgapi::blocking::list(Some(&filter)), after the loop.
ProcessCallList ==
    /\ pc = "process"
    /\ idx > Len(args)
    /\ pc' = "list"
    /\ UNCHANGED <<getVars, filter, encVars, cliVars, url, requests, response,
                   result, stdout>>

\* let images = ...?; println!("found {} image(s) matching filter", ...); Ok(())
ProcessAfterList ==
    /\ pc = "process_ret"
    /\ IF result.v.ok
       THEN /\ stdout' = Append(stdout, [fmt |-> "found {} image(s) matching filter",
                                         arg |-> U32ToString(Len(result.v.v))])
            /\ result' = Some(Ok(<<>>))
       ELSE UNCHANGED <<stdout, result>>
    /\ pc' = "main"
    /\ UNCHANGED <<getVars, filter, encVars, cliVars, url, requests, response>>

\* fn main: if let Err(e) = process() { eprintln!("error: {}", e); }
Main ==
    /\ pc = "main"
    /\ stderr' = IF result.v.ok THEN stderr
                 ELSE Append(stderr, [fmt |-> "error: {}", arg |-> result.v.e])
    /\ exit_status' = Some(0)
    /\ pc' = "exited"
    /\ UNCHANGED <<caller, args, idx, getVars, filter, encVars, url, requests,
                   response, result, stdout>>

NextCli ==
    \/ ProcessArg
    \/ ProcessCallList
    \/ ListBuildUrl
    \/ ListRequest
    \/ ListResponse
    \/ ProcessAfterList
    \/ Main

SpecCli == InitCli /\ [][NextCli]_vars

----------------------------------------------------------------------------
(* Claims about blocking::get *)

IsHyphenatedText(s) ==
    LET g == Split(s, "-")
    IN  /\ Len(g) = 5
        /\ <<Len(g[1]), Len(g[2]), Len(g[3]), Len(g[4]), Len(g[5])>> = <<8, 4, 4, 4, 12>>
        /\ \A i \in 1..5 : \A j \in DOMAIN g[i] : IsHex(g[i][j])

\* The text of a unique identifier: 32 hexadecimal digits, or the hyphenated
\* form, alone, in braces or after "urn:uuid:".
ValidIdText(s) ==
    \/ Len(s) = 32 /\ \A i \in DOMAIN s : IsHex(s[i])
    \/ IsHyphenatedText(s)
    \/ Len(s) = 38 /\ s[1] = "{" /\ s[38] = "}" /\ IsHyphenatedText(SubSeq(s, 2, 37))
    \/ StartsWith(s, S_urn_uuid) /\ IsHyphenatedText(SubSeq(s, 10, Len(s)))

\* C1: for an input that is not a syntactically valid identifier, get returns
\* the validation error, having built no URL and issued no request.
C1_InvalidIdFailsFast ==
    ~ValidIdText(image_uuid) =>
        /\ pc \in {"get", "returned"}
        /\ url = None
        /\ requests = <<>>
        /\ pc = "returned" => result = Some(Err(Error("InvalidUuid")))

C1_Witness ==
    /\ pc = "returned"
    /\ image_uuid = S_not_a_uuid
    /\ result = Some(Err(Error("InvalidUuid")))
    /\ requests = <<>>

\* C2: for a syntactically valid id, get issues exactly one GET, to
\* <base>/<id>: the whole base endpoint with the id as one more path segment.
C2_OneGetToBaseSlashId ==
    (ValidIdText(image_uuid) /\ pc \in {"get_recv", "returned"}) =>
        requests = <<[method |-> "GET",
                      url |-> JOYENT_IMGAPI_URL \o <<"/">> \o image_uuid]>>

----------------------------------------------------------------------------
(* Claims about ImageFilter::to_string *)

HexValue(c) == IndexOf(HexUpper, IF c \in UpperChars \/ IsDigit(c) THEN c
                                 ELSE UpperCase[IndexOf(LowerCase, c)]) - 1

\* Decoding of one name or value of a query string: + is a space, %XX the
\* character with that code.
RECURSIVE PercentDecode(_)
PercentDecode(s) ==
    IF s = <<>> THEN <<>>
    ELSE IF s[1] = "+" THEN <<" ">> \o PercentDecode(Tail(s))
    ELSE IF s[1] = "%" /\ Len(s) >= 3 /\ IsHex(s[2]) /\ IsHex(s[3])
    THEN <<Ascii[16 * HexValue(s[2]) + HexValue(s[3]) - 31]>>
            \o PercentDecode(SubSeq(s, 4, Len(s)))
    ELSE <<s[1]>> \o PercentDecode(Tail(s))

DecodePair(piece) ==
    LET i == IndexOf(piece, "=")
    IN  IF i = 0 THEN <<PercentDecode(piece), <<>>>>
        ELSE <<PercentDecode(SubSeq(piece, 1, i - 1)),
               PercentDecode(SubSeq(piece, i + 1, Len(piece)))>>

\* The <<key, value>> pairs of a query string, in the order they appear.
ParsePairs(q) ==
    LET pieces == SelectSeq(Split(q, "&"), LAMBDA x : x # <<>>)
    IN  [i \in DOMAIN pieces |-> DecodePair(pieces[i])]

\* The multi-map of a query string at one key: the values under it, in order.
ValuesOf(pairs, key) ==
    LET hits == SelectSeq(pairs, LAMBDA x : x[1] = key)
    IN  [i \in DOMAIN hits |-> hits[i][2]]

\* The documented key of a field.
DocumentedKey(field) ==
    CASE field = "include_admin_fields" -> K_inclAdminFields
      [] field = "image_type" -> K_type
      [] OTHER -> Stringify(field)

\* The documented textual value of a field.
DocumentedValue(field, v) ==
    CASE field \in {"account", "owner"} -> UuidToString(v)
      [] field \in {"include_admin_fields", "public"} -> BoolToString(v)
      [] field = "state" -> ImageStateToString(v)
      [] field = "os" -> as_param(v)
      [] field = "limit" -> U32ToString(v)
      [] OTHER -> v

\* The multi-map a filter is documented to encode to, as the set of its
\* <<key, values>> entries.
DocumentedMap(f) ==
    {<<DocumentedKey(field), <<DocumentedValue(field, f[field].v)>>>> :
        field \in {x \in ScalarFields : f[x].some}}
      \cup (IF f.tag.some
            THEN {<<K_tag_dot \o f.tag.v[i][1], <<f.tag.v[i][2]>>>> : i \in DOMAIN f.tag.v}
            ELSE {})
      \cup (IF f.billing_tag.some /\ f.billing_tag.v # <<>>
            THEN {<<K_billing_tag, f.billing_tag.v>>}
            ELSE {})

\* The multi-map of a query string, as the set of its <<key, values>> entries.
DecodedMap(q) ==
    LET pairs == ParsePairs(q)
    IN  {<<pairs[i][1], ValuesOf(pairs, pairs[i][1])>> : i \in DOMAIN pairs}

FilterOf(i) == IF i = 1 THEN filter.v ELSE filter2.v

\* C3: the decoded query string holds every set field under its documented
\* key with its value, and nothing for an unset field.
C3_DecodesToDocumentedMap ==
    \A i \in {1, 2} :
        encoded[i].some => DecodedMap(encoded[i].v) = DocumentedMap(FilterOf(i))

\* C4: with the include-admin-fields flag set, the query string holds exactly
\* one pair with the key inclAdminFields, its value the flag as true or false.
C4_InclAdminFieldsKey ==
    \A i \in {1, 2} :
        (encoded[i].some /\ FilterOf(i).include_admin_fields.some) =>
            ValuesOf(ParsePairs(encoded[i].v), K_inclAdminFields)
                = <<BoolToString(FilterOf(i).include_admin_fields.v)>>

\* C5: the values of the billing_tag pairs of the query string, in the order
\* the pairs appear, are the elements of the billing-tag list in list order,
\* duplicates included.
C5_BillingTagsInListOrder ==
    \A i \in {1, 2} :
        encoded[i].some =>
            ValuesOf(ParsePairs(encoded[i].v), K_billing_tag)
                = IF FilterOf(i).billing_tag.some THEN FilterOf(i).billing_tag.v
                  ELSE <<>>

C5_Witness ==
    /\ encoded[1].some
    /\ filter.v.billing_tag = Some(<<<<"b", " ", "c">>, <<"a">>>>)
    /\ filter.v.name.some
    /\ filter.v.tag.some /\ filter.v.tag.v # <<>>

SameFieldValues(f, g) ==
    /\ \A x \in DOMAIN f \ {"tag"} : f[x] = g[x]
    /\ SameMap(f.tag, g.tag)

\* C6: two filters with equal field values encode to the same query string.
C6_EqualFiltersEncodeEqually ==
    (encoded[1].some /\ encoded[2].some /\ SameFieldValues(filter.v, filter2.v)) =>
        encoded[1] = encoded[2]

----------------------------------------------------------------------------
(* Claims about blocking::list *)

\* C7: list issues exactly one GET: to the bare endpoint when no filter is
\* given, and to the endpoint, "?" and the filter's to_string when one is,
\* also when the filter has no field set.
C7_ListRequestsEndpoint ==
    /\ pc \in {"list", "list_send"} => requests = <<>>
    /\ pc \in {"list_recv", "returned"} =>
        requests = <<[method |-> "GET",
                      url |-> IF filter.some
                              THEN JOYENT_IMGAPI_URL \o <<"?">> \o to_string(filter.v)
                              ELSE JOYENT_IMGAPI_URL]>>

C7_Witness ==
    /\ pc = "returned"
    /\ filter = Some(DefaultFilter)
    /\ Len(requests) = 1
    /\ requests[1].url = JOYENT_IMGAPI_URL \o <<"?">>

\* C8: for a response array, list returns one Image per element in response
\* order when every element decodes (none for the empty array), and an
\* error, and so no Image, when some element does not.
C8_NoPartialSuccess ==
    (pc = "returned" /\ response.some /\ response.v.ok /\ response.v.v.t = "array") =>
        LET a == response.v.v.a
        IN  IF \A i \in DOMAIN a : IsImage(a[i])
            THEN /\ result.v.ok
                 /\ Len(result.v.v) = Len(a)
                 /\ \A i \in DOMAIN a : result.v.v[i] = DecodeImage(a[i]).v
            ELSE ~result.v.ok

C8_Witness ==
    /\ pc = "returned"
    /\ response = Some(Ok(JArr(<<GoodImage, NoFilesImage>>)))
    /\ ~result.v.ok

----------------------------------------------------------------------------
(* Claims about the command-line entry point *)

RecognizedKeys ==
    {K_account, K_channel, K_inclAdminFields, K_owner, K_name, K_version, K_public,
     K_os, K_type, K_tag, K_billing_tag, K_limit, K_marker}

\* The text of a 32-bit unsigned integer.
IsU32Text(v) ==
    LET d == IF v # <<>> /\ v[1] = "+" THEN Tail(v) ELSE v
    IN  /\ d # <<>>
        /\ \A i \in DOMAIN d : IsDigit(d[i])
        /\ ~NumeralGreater(StripZeros(d), S_u32_max)

KeyOf(t) == SubSeq(t, 1, IndexOf(t, "=") - 1)
ValueOf(t) == SubSeq(t, IndexOf(t, "=") + 1, Len(t))

\* A key=value token whose key is unrecognized or whose value is malformed
\* for the typed field of its key.
IsBadToken(t) ==
    /\ IndexOf(t, "=") > 0
    /\ \/ KeyOf(t) \notin RecognizedKeys
       \/ KeyOf(t) \in {K_account, K_owner} /\ ~ValidIdText(ValueOf(t))
       \/ KeyOf(t) \in {K_inclAdminFields, K_public} /\ ValueOf(t) \notin {S_true, S_false}
       \/ KeyOf(t) = K_os
            /\ ToLower(ValueOf(t)) \notin {S_smartos, S_linux, S_windows, S_bsd,
                                           S_illumos, S_other}
       \/ KeyOf(t) = K_limit /\ ~IsU32Text(ValueOf(t))

\* A token of a key that is recognized but not implemented: tag, marker.
IsTodoToken(t) == IndexOf(t, "=") > 0 /\ KeyOf(t) \in {K_tag, K_marker}

HasBadToken == \E i \in DOMAIN args : IsBadToken(args[i])
FirstBad == CHOOSE i \in DOMAIN args :
                IsBadToken(args[i]) /\ \A j \in 1..(i - 1) : ~IsBadToken(args[j])

\* C9: when some argument is a key=value token with an unrecognized key or a
\* malformed value, wherever it stands, list is never invoked and nothing is
\* requested, and processing ends with an error. (When a tag= or marker=
\* token stands before it, processing has already ended there, by the panic
\* of todo!().)
C9_BadTokenNeverLists ==
    HasBadToken =>
        /\ pc \in {"process", "main", "exited"}
        /\ url = None /\ requests = <<>> /\ stdout = <<>>
        /\ pc \in {"main", "exited"} =>
            IF \E j \in 1..(FirstBad - 1) : IsTodoToken(args[j])
            THEN exit_status = Some(101) /\ result = None
            ELSE result.some /\ ~result.v.ok

C9_Witness ==
    /\ pc = "exited"
    /\ args = <<S_img, T_os, T_bad_limit_sign>>
    /\ result = Some(Err(Error("limit must be an integer")))
    /\ requests = <<>>

\* C10: when processing returns an error, the program prints it and
\* terminates with a non-zero status, without a second attempt.
C10_ErrorExitsNonZero ==
    (pc = "exited" /\ result.some /\ ~result.v.ok) =>
        /\ stderr = <<[fmt |-> "error: {}", arg |-> result.v.e]>>
        /\ exit_status.some /\ exit_status.v # 0
        /\ Len(requests) <= 1

\* The arguments the loop has gone through so far.
ProcessedArgs == SubSeq(args, 1, idx - 1)

IsValidToken(t) == ~IsBadToken(t) /\ ~IsTodoToken(t)

\* The value a valid token of key k carries for its field.
TokenValue(k, v) ==
    CASE k \in {K_account, K_owner} -> UuidParse(v).v
      [] k \in {K_inclAdminFields, K_public} -> (v = S_true)
      [] k = K_os -> (CHOOSE os \in OperatingSystem : as_param(os) = ToLower(v))
      [] k = K_limit -> DecimalValue(IF v[1] = "+" THEN Tail(v) ELSE v)
      [] OTHER -> v

\* The positions in s of the key=value tokens of key k.
PositionsOf(s, k) == {i \in DOMAIN s : IndexOf(s[i], "=") > 0 /\ KeyOf(s[i]) = k}

\* The value of the last token of key k in s; unset when there is none.
LastValueOf(s, k) ==
    LET at == PositionsOf(s, k)
        last == CHOOSE i \in at : \A j \in at : j <= i
    IN  IF at = {} THEN None ELSE Some(TokenValue(k, ValueOf(s[last])))

\* The values of the billing_tag tokens of s, in their order in s.
RECURSIVE BillingTagValuesOf(_)
BillingTagValuesOf(s) ==
    IF s = <<>> THEN <<>>
    ELSE LET t == Head(s)
         IN  (IF IndexOf(t, "=") > 0 /\ KeyOf(t) = K_billing_tag
              THEN <<ValueOf(t)>> ELSE <<>>) \o BillingTagValuesOf(Tail(s))

FilterFromTokens(s) ==
    [account |-> LastValueOf(s, K_account),
     channel |-> LastValueOf(s, K_channel),
     include_admin_fields |-> LastValueOf(s, K_inclAdminFields),
     owner |-> LastValueOf(s, K_owner),
     state |-> None,
     name |-> LastValueOf(s, K_name),
     version |-> LastValueOf(s, K_version),
     public |-> LastValueOf(s, K_public),
     os |-> LastValueOf(s, K_os),
     image_type |-> LastValueOf(s, K_type),
     tag |-> None,
     billing_tag |-> IF BillingTagValuesOf(s) = <<>> THEN None
                     ELSE Some(BillingTagValuesOf(s)),
     limit |-> LastValueOf(s, K_limit)]

\* C11: after the entry point has gone through a sequence of valid tokens,
\* the filter's billing-tag list is the sequence of the values of the
\* billing_tag= tokens in their order on the command line (unset when there
\* are none), every other recognized key holds the value of its last token,
\* and the tokens without `=` have changed nothing.
C11_FilterFollowsTokens ==
    (\A i \in DOMAIN ProcessedArgs : IsValidToken(ProcessedArgs[i])) =>
        filter = Some(FilterFromTokens(ProcessedArgs))

C11_Witness ==
    /\ pc = "list"
    /\ args = <<S_img, T_billing_tag_bc, T_billing_tag_a>>
    /\ idx = 4
    /\ filter.v.billing_tag = Some(<<<<"b", " ", "c">>, <<"a">>>>)

\* The same for a plain key: the second owner= token has replaced the first.
C11_LastOwnerWins ==
    /\ pc = "list"
    /\ args = <<S_img, T_owner, T_owner2>>
    /\ filter.v.owner = Some(UuidParse(Hyphenated("0", "7")).v)

============================================================================
